---- MODULE Spec2Model ----
(***************************************************************************)
(* tinypatscan: a fixed-capacity byte pattern (IDA-style signature) is     *)
(* compiled by Pattern::from_str and searched in a byte buffer by          *)
(* Pattern::search, Pattern::simd_search and Pattern::par_search.          *)
(*                                                                         *)
(* Characters and bytes are their u8 values.  Rust arrays are 0-based,     *)
(* TLA+ sequences 1-based: the array element a[k] is the sequence element  *)
(* a[k + 1].                                                               *)
(***************************************************************************)
EXTENDS Integers, Sequences, FiniteSets, TLC

\* ------------------------------------------------------------------ bounds
\* longest free-form signature text
MaxLen == 5
\* largest capacity SIZE tried
MaxSize == 5
\* longest free-form buffer tail
MaxBuf == 3
\* number of filler tokens / filler bytes put in front of long inputs
FillCount == 15
\* rayon worker threads: at most this many windows are evaluated at once
NumWorkers == 2

\* ------------------------------------------------------- program constants
\* b' '
SP == 32
\* b'?'
HUH == 63
\* u8::MAX, the initial mask value: the byte must match
EXACT == 255
\* the mask value written for a `?` token: the byte matches anything
WILDCARD == 0
\* chunks_exact(16), u8x16
ChunkWidth == 16

VARIABLES
    sus,        \* the signature text handed to from_str
    SIZE,       \* the const generic capacity
    memchr,     \* the build has feature "memchr"
    bytes,      \* the buffer handed to the searches
    pc,         \* "start" | "loop" | "compiled" | "ready" | "failed"
    panic_msg,  \* why from_str panicked ("" while it has not)
    i,          \* from_str: index of the next character
    data, mask, pattern_i, no_mask,   \* the Pattern being built / built
    hexbytes, found_huh,              \* from_str scratch state
    res_search, \* outcome of search(bytes)
    res_simd,   \* outcome of simd_search(bytes)
    par_pc,     \* "idle" | "running" | "done"
    todo,       \* par_search: window offsets no worker has taken yet
    inflight,   \* par_search: window offsets some worker is evaluating
    found,      \* par_search: offsets whose closure returned Some
    rejected,   \* par_search: offsets whose closure returned None
    full,       \* par_search: find_any's "a match was found" flag
    res_par     \* outcome of par_search(bytes)

vars == <<sus, SIZE, memchr, bytes, pc, panic_msg, i, data, mask, pattern_i,
          no_mask, hexbytes, found_huh, res_search, res_simd, par_pc, todo,
          inflight, found, rejected, full, res_par>>

patvars == <<data, mask, pattern_i, no_mask, hexbytes, found_huh>>
parvars == <<par_pc, todo, inflight, found, rejected, full, res_par>>

\* ------------------------------------------------------------- outcomes
Some(o) == [tag |-> "Some", off |-> o]
None == [tag |-> "None", off |-> 0]
Panic == [tag |-> "panic", off |-> 0]
NotRun == [tag |-> "notrun", off |-> 0]

\* ------------------------------------------------------- get_pattern_size
RECURSIVE gps_loop(_, _, _, _)
gps_loop(chars, k, non_whitespace, pattern_len) ==
    IF k >= Len(chars) THEN pattern_len + 1
    ELSE IF chars[k + 1] = SP /\ non_whitespace
         THEN gps_loop(chars, k + 1, FALSE, pattern_len + 1)
    ELSE IF chars[k + 1] # SP
         THEN gps_loop(chars, k + 1, TRUE, pattern_len)
    ELSE gps_loop(chars, k + 1, non_whitespace, pattern_len)

get_pattern_size(pattern) == gps_loop(pattern, 0, TRUE, 0)

\* (the assertion with >= for >)
SizeOk_NotStrict(size, s) == size >= get_pattern_size(s)

\* the assertion that opens from_str

SizeOk(size, s) == size > get_pattern_size(s)

\* ------------------------------------------------------- hex decoding
IsDigit(c) == c \in 48..57
IsUpper(c) == c \in 65..70
IsLower(c) == c \in 97..102
IsHex(c) == IsDigit(c) \/ IsUpper(c) \/ IsLower(c)

HexVal(c) == IF IsDigit(c) THEN c - 48
             ELSE IF IsUpper(c) THEN c - 55
             ELSE c - 87

\* core::str::from_utf8 on the two scratch bytes
Utf8Ok(h) == \/ h[1] < 128 /\ h[2] < 128
             \/ h[1] \in 194..223 /\ h[2] \in 128..191

\* u8::from_str_radix(duo_str, 16) on a two-character string: an optional
\* leading '+' and then hex digits
from_str_radix(h) ==
    IF h[1] = 43
    THEN IF IsHex(h[2]) THEN [ok |-> TRUE, val |-> HexVal(h[2])]
         ELSE [ok |-> FALSE, val |-> 0]
    ELSE IF IsHex(h[1]) /\ IsHex(h[2])
         THEN [ok |-> TRUE, val |-> 16 * HexVal(h[1]) + HexVal(h[2])]
    ELSE [ok |-> FALSE, val |-> 0]

\* ------------------------------------------------- from_str, one iteration
\* The parser state is the record
\*   [data, mask, pattern_i, no_mask, hexbytes, found_huh, panic]
\* with panic = "" while nothing has failed.
Fail(p, msg) == [p EXCEPT !.panic = msg]

\* const_unwrap!(from_utf8) ; const_unwrap!(from_str_radix) ;
\* data[pattern_i] = parsed ; pattern_i += 1
StoreByte(p) ==
    IF ~Utf8Ok(p.hexbytes) THEN Fail(p, "not utf8")
    ELSE IF ~from_str_radix(p.hexbytes).ok THEN Fail(p, "Bad pattern")
    ELSE IF p.pattern_i >= Len(p.data) THEN Fail(p, "index out of bounds")
    ELSE [p EXCEPT !.data[p.pattern_i + 1] = from_str_radix(p.hexbytes).val,
                   !.pattern_i = @ + 1]

\* match arm b' '
ArmSpace(p) ==
    IF p.found_huh
    THEN [p EXCEPT !.found_huh = FALSE, !.hexbytes = <<0, 0>>]
    ELSE IF ~(p.hexbytes[1] # 0 /\ p.hexbytes[2] # 0)
         THEN Fail(p, "assertion failed")
    ELSE LET q == StoreByte(p)
         IN  IF q.panic # "" THEN q ELSE [q EXCEPT !.hexbytes = <<0, 0>>]

\* match arm b'?'
ArmHuh(p) ==
    LET q == IF p.found_huh THEN p
             ELSE IF ~(p.hexbytes[1] = 0 /\ p.hexbytes[2] = 0)
                  THEN Fail(p, "assertion failed")
             ELSE IF p.pattern_i >= Len(p.mask)
                  THEN Fail(p, "index out of bounds")
             ELSE [p EXCEPT !.mask[p.pattern_i + 1] = WILDCARD,
                            !.pattern_i = @ + 1]
    IN  IF q.panic # "" THEN q
        ELSE [q EXCEPT !.found_huh = TRUE, !.no_mask = FALSE]

\* match arm char @ _
ArmOther(p, char) ==
    LET index == IF p.hexbytes[1] # 0 THEN 1 ELSE 0
    IN  [p EXCEPT !.hexbytes[index + 1] = char]

\* the block under `if i == sus.len()`
Flush(p) ==
    IF ~(p.hexbytes[1] # 0) THEN Fail(p, "assertion failed")
    ELSE IF p.hexbytes[1] = HUH
         THEN IF p.pattern_i >= Len(p.mask) THEN Fail(p, "index out of bounds")
              ELSE [p EXCEPT !.mask[p.pattern_i + 1] = WILDCARD]
    ELSE IF ~(p.hexbytes[2] # 0) THEN Fail(p, "assertion failed")
    ELSE StoreByte(p)

\* one iteration of `while i < sus.len()`: the match, i += 1, the flush
Iteration(p, char, last) ==
    LET q == IF char = SP THEN ArmSpace(p)
             ELSE IF char = HUH THEN ArmHuh(p)
             ELSE ArmOther(p, char)
    IN  IF q.panic # "" THEN q
        ELSE IF last THEN Flush(q)
        ELSE q

\* --------------------------------------------------------------- windows
\* bytes.windows(n).enumerate(): how many windows there are, and window o
NumWindows(b, n) == IF Len(b) >= n THEN Len(b) - n + 1 ELSE 0

Window(b, n, o) == SubSeq(b, o + 1, o + n)

\* the pattern as the searches read it
Pat == [data |-> data, mask |-> mask, pattern_i |-> pattern_i,
        no_mask |-> no_mask]

\* ---------------------------------------------------- memchr::memmem::find
RECURSIVE memmem_loop(_, _, _)
memmem_loop(haystack, needle, o) ==
    IF o + Len(needle) > Len(haystack) THEN None
    ELSE IF SubSeq(haystack, o + 1, o + Len(needle)) = needle THEN Some(o)
    ELSE memmem_loop(haystack, needle, o + 1)

memmem_find(haystack, needle) == memmem_loop(haystack, needle, 0)

\* ----------------------------------------------------------------- search
\* the 'compare loop: TRUE when it falls through to `return Some(i)`
RECURSIVE compare(_, _, _)
compare(p, slice, index) ==
    IF index >= p.pattern_i THEN TRUE
    ELSE IF p.mask[index + 1] = 0 THEN compare(p, slice, index + 1)
    ELSE IF p.data[index + 1] # slice[index + 1] THEN FALSE
    ELSE compare(p, slice, index + 1)

\* the 'search loop from window o on
RECURSIVE search_loop(_, _, _)
search_loop(p, b, o) ==
    IF o >= NumWindows(b, p.pattern_i) THEN None
    ELSE IF compare(p, Window(b, p.pattern_i, o), 0) THEN Some(o)
    ELSE search_loop(p, b, o + 1)

search(p, b) ==
    IF ~(p.pattern_i <= SIZE) THEN Panic
    ELSE IF memchr /\ p.no_mask
         THEN memmem_find(b, SubSeq(p.data, 1, p.pattern_i))
    ELSE IF p.pattern_i = 0 THEN Panic      \* windows(0) panics
    ELSE search_loop(p, b, 0)

\* ------------------------------------------------------------ simd_search
\* u8 & u8
RECURSIVE BitAnd(_, _)
BitAnd(a, b) ==
    IF a = 0 \/ b = 0 THEN 0
    ELSE (a % 2) * (b % 2) + 2 * BitAnd(a \div 2, b \div 2)

\* chunks_exact(16): the number of full chunks, chunk c, the remainder
NumChunks(s) == Len(s) \div ChunkWidth

Chunk(s, c) == SubSeq(s, c * ChunkWidth + 1, (c + 1) * ChunkWidth)

Remainder(s) == SubSeq(s, NumChunks(s) * ChunkWidth + 1, Len(s))

\* (the chunk compared without the mask)
Masked_NoMask(chunk, mask_chunk) == chunk

\* chunk & mask_chunk, lane by lane
Masked(chunk, mask_chunk) ==
    [l \in 1..ChunkWidth |-> BitAnd(chunk[l], mask_chunk[l])]

\* `for chunk in slice_chunks`, from chunk c on: "tail" when every full
\* chunk compared equal, "reject" on `continue 'search`, "return" when
\* pchunks.next()? or mchunks.next()? leaves the function with None
RECURSIVE simd_chunks(_, _, _)
simd_chunks(p, slice, c) ==
    IF c >= NumChunks(slice) THEN "tail"
    ELSE IF c >= NumChunks(SubSeq(p.data, 1, p.pattern_i)) THEN "return"
    ELSE IF c >= NumChunks(SubSeq(p.mask, 1, p.pattern_i)) THEN "return"
    ELSE LET chunk == Chunk(slice, c)
             pattern_chunk == Chunk(SubSeq(p.data, 1, p.pattern_i), c)
             mask_chunk == Chunk(SubSeq(p.mask, 1, p.pattern_i), c)
         IN  IF Masked(chunk, mask_chunk) # pattern_chunk THEN "reject"
             ELSE simd_chunks(p, slice, c + 1)

\* the 'remainder loop from tail byte k on: TRUE when it falls through
RECURSIVE simd_remainder(_, _, _, _)
simd_remainder(p, rem_chunk, rem_start, k) ==
    IF k >= Len(rem_chunk) THEN TRUE
    ELSE IF p.mask[rem_start + k + 1] = 0
         THEN simd_remainder(p, rem_chunk, rem_start, k + 1)
    ELSE IF p.data[rem_start + k + 1] # rem_chunk[k + 1] THEN FALSE
    ELSE simd_remainder(p, rem_chunk, rem_start, k + 1)

\* one window of simd_search: "accept" | "reject" | "return" | "panic"
simd_window(p, slice) ==
    LET r == simd_chunks(p, slice, 0)
        rem_chunk == Remainder(slice)
        rem_start == Len(slice) - Len(rem_chunk)
    IN  IF r # "tail" THEN r
        ELSE IF ~(Len(rem_chunk) + rem_start <= SIZE) THEN "panic"
        ELSE IF simd_remainder(p, rem_chunk, rem_start, 0) THEN "accept"
        ELSE "reject"

RECURSIVE simd_loop(_, _, _)
simd_loop(p, b, o) ==
    IF o >= NumWindows(b, p.pattern_i) THEN None
    ELSE LET r == simd_window(p, Window(b, p.pattern_i, o))
         IN  IF r = "accept" THEN Some(o)
             ELSE IF r = "return" THEN None
             ELSE IF r = "panic" THEN Panic
             ELSE simd_loop(p, b, o + 1)

simd_search(p, b) ==
    IF ~(p.pattern_i <= SIZE) THEN Panic
    ELSE IF memchr /\ p.no_mask
         THEN memmem_find(b, SubSeq(p.data, 1, p.pattern_i))
    ELSE IF p.pattern_i = 0 THEN Panic      \* windows(0) panics
    ELSE simd_loop(p, b, 0)

\* ------------------------------------------------------------- par_search
\* (the closure's loop stopping one position early)
RECURSIVE par_compare_OffByOne(_, _, _)
par_compare_OffByOne(p, slice, index) ==
    IF index + 1 >= p.pattern_i THEN TRUE
    ELSE IF p.mask[index + 1] = 0
         THEN par_compare_OffByOne(p, slice, index + 1)
    ELSE IF p.data[index + 1] # slice[index + 1] THEN FALSE
    ELSE par_compare_OffByOne(p, slice, index + 1)

\* the closure given to map: its 'compare loop, TRUE for Some(i)
RECURSIVE par_compare(_, _, _)
par_compare(p, slice, index) ==
    IF index >= p.pattern_i THEN TRUE
    ELSE IF p.mask[index + 1] = 0 THEN par_compare(p, slice, index + 1)
    ELSE IF p.data[index + 1] # slice[index + 1] THEN FALSE
    ELSE par_compare(p, slice, index + 1)

par_closure(p, b, o) == par_compare(p, Window(b, p.pattern_i, o), 0)

\* ------------------------------------------------------------ input sets
\* ' ', '?', '0', 'A', 'G'
Alphabet == {SP, HUH, 48, 65, 71}

\* every text of at most n characters
Strings(n) == UNION {[1..m -> Alphabet] : m \in 0..n}

\* the signatures the documentation uses: "FF ?? 00", "FF D8 ?? 03"
Examples == {<<70, 70, 32, 63, 63, 32, 48, 48>>,
             <<70, 70, 32, 68, 56, 32, 63, 63, 32, 48, 51>>}

\* the buffer of the documented scenario
ExampleBuf == <<0, 255, 216, 119, 3, 0>>

\* "??", "0A", "A0"
Tokens == {<<63, 63>>, <<48, 65>>, <<65, 48>>}

\* tokens joined by single spaces
RECURSIVE Join(_)
Join(toks) ==
    IF Len(toks) = 0 THEN <<>>
    ELSE IF Len(toks) = 1 THEN toks[1]
    ELSE toks[1] \o <<SP>> \o Join(Tail(toks))

\* k copies of s
RECURSIVE Rep(_, _)
Rep(s, k) == IF k = 0 THEN <<>> ELSE s \o Rep(s, k - 1)

\* token sequences whose text has at most MaxLen characters
Tails == {Join(t) : t \in UNION {[1..m -> Tokens] : m \in 1..(MaxLen \div 2)}}
             \cap Strings(MaxLen)

\* texts outside the grammar: "?0A", "? 0A", "0AA"
Quirks == {<<63, 48, 65>>, <<63, 32, 48, 65>>, <<48, 65, 65>>}

\* a signed byte token: "+A"
SignedToken == <<43, 65>>

\* the signatures of the search runs: the empty text, the documented ones,
\* some outside the grammar, and 0 or FillCount filler tokens ("??" or
\* "0A") followed by a tail
SearchSigs ==
    {<<>>, SignedToken} \cup Examples \cup Quirks \cup Tails
    \cup {Rep(f \o <<SP>>, FillCount) \o t : f \in {<<63, 63>>, <<48, 65>>},
                                              t \in Tails}

\* 0x0A, 0xA0
ByteVals == {10, 160}

\* the buffers of the search runs: the documented one, and 0 or FillCount
\* equal filler bytes followed by up to MaxBuf bytes
SearchBufs ==
    LET tails == UNION {[1..m -> ByteVals] : m \in 0..MaxBuf}
    IN  {ExampleBuf} \cup tails
        \cup {Rep(<<v>>, FillCount) \o t : v \in ByteVals, t \in tails}

\* ------------------------------------------------------------------- Init
InitRest ==
    /\ bytes = <<>>
    /\ pc = "start"
    /\ panic_msg = ""
    /\ i = 0
    /\ data = <<>>
    /\ mask = <<>>
    /\ pattern_i = 0
    /\ no_mask = TRUE
    /\ hexbytes = <<0, 0>>
    /\ found_huh = FALSE
    /\ res_search = NotRun
    /\ res_simd = NotRun
    /\ par_pc = "idle"
    /\ todo = {}
    /\ inflight = {}
    /\ found = {}
    /\ rejected = {}
    /\ full = FALSE
    /\ res_par = NotRun

\* search runs: token-built signatures, short or long enough for full
\* chunks, compiled with the least capacity from_str takes, or one more
Init ==
    /\ sus \in SearchSigs
    /\ SIZE \in {get_pattern_size(sus) + n : n \in {1, 2}}
    /\ memchr \in BOOLEAN
    /\ InitRest

\* compiler runs: every short text over the alphabet, the documented
\* signatures and some outside the grammar, every small capacity
InitCompile ==
    /\ sus \in Strings(MaxLen) \cup Examples \cup Quirks
    /\ SIZE \in 0..MaxSize
    /\ memchr = FALSE
    /\ InitRest

\* ---------------------------------------------------------------- from_str
\* the assertion and the initial values of the locals
FromStrEntry ==
    /\ pc = "start"
    /\ IF SizeOk(SIZE, sus)
       THEN /\ pc' = "loop"
            /\ data' = [k \in 1..SIZE |-> 0]
            /\ mask' = [k \in 1..SIZE |-> EXACT]
            /\ i' = 0
            /\ pattern_i' = 0
            /\ hexbytes' = <<0, 0>>
            /\ found_huh' = FALSE
            /\ no_mask' = TRUE
            /\ UNCHANGED panic_msg
       ELSE /\ pc' = "failed"
            /\ panic_msg' = "The const pattern size is wrong"
            /\ UNCHANGED <<i, patvars>>
    /\ UNCHANGED <<sus, SIZE, memchr, bytes, res_search, res_simd, parvars>>

\* one iteration of the while loop
FromStrIterate ==
    /\ pc = "loop"
    /\ i < Len(sus)
    /\ LET p == [data |-> data, mask |-> mask, pattern_i |-> pattern_i,
                 no_mask |-> no_mask, hexbytes |-> hexbytes,
                 found_huh |-> found_huh, panic |-> ""]
           r == Iteration(p, sus[i + 1], i + 1 = Len(sus))
       IN  /\ data' = r.data
           /\ mask' = r.mask
           /\ pattern_i' = r.pattern_i
           /\ no_mask' = r.no_mask
           /\ hexbytes' = r.hexbytes
           /\ found_huh' = r.found_huh
           /\ panic_msg' = r.panic
           /\ pc' = IF r.panic # "" THEN "failed" ELSE "loop"
    /\ i' = i + 1
    /\ UNCHANGED <<sus, SIZE, memchr, bytes, res_search, res_simd, parvars>>

\* the loop is over: Self { data, mask, pattern_i, no_mask }
FromStrReturn ==
    /\ pc = "loop"
    /\ ~(i < Len(sus))
    /\ pc' = "compiled"
    /\ UNCHANGED <<sus, SIZE, memchr, bytes, panic_msg, i, patvars,
                   res_search, res_simd, parvars>>

\* --------------------------------------------------------------- searches
\* the caller reads the buffer to search (one the model can scan: at most
\* MaxBuf + 1 windows)
ReadBuffer ==
    /\ pc = "compiled"
    /\ \E b \in SearchBufs :
          /\ NumWindows(b, pattern_i) <= MaxBuf + 1
          /\ bytes' = b
    /\ pc' = "ready"
    /\ UNCHANGED <<sus, SIZE, memchr, panic_msg, i, patvars, res_search,
                   res_simd, parvars>>

\* the caller's thread runs one search at a time (par_search returns only
\* when its workers are done)
Search ==
    /\ pc = "ready"
    /\ par_pc # "running"
    /\ res_search = NotRun
    /\ res_search' = search(Pat, bytes)
    /\ UNCHANGED <<sus, SIZE, memchr, bytes, pc, panic_msg, i, patvars,
                   res_simd, parvars>>

SimdSearch ==
    /\ pc = "ready"
    /\ par_pc # "running"
    /\ res_simd = NotRun
    /\ res_simd' = simd_search(Pat, bytes)
    /\ UNCHANGED <<sus, SIZE, memchr, bytes, pc, panic_msg, i, patvars,
                   res_search, parvars>>

\* par_search up to the parallel iterator: the assertion, the memchr fast
\* path, par_windows
ParStart ==
    /\ pc = "ready"
    /\ par_pc = "idle"
    /\ IF ~(pattern_i <= SIZE)
       THEN /\ res_par' = Panic
            /\ par_pc' = "done"
            /\ UNCHANGED todo
       ELSE IF memchr /\ no_mask
       THEN /\ res_par' = memmem_find(bytes, SubSeq(data, 1, pattern_i))
            /\ par_pc' = "done"
            /\ UNCHANGED todo
       ELSE IF pattern_i = 0                \* par_windows(0) panics
       THEN /\ res_par' = Panic
            /\ par_pc' = "done"
            /\ UNCHANGED todo
       ELSE /\ todo' = {o \in 0..(Len(bytes) - 1) :
                            o < NumWindows(bytes, pattern_i)}
            /\ par_pc' = "running"
            /\ UNCHANGED res_par
    /\ UNCHANGED <<sus, SIZE, memchr, bytes, pc, panic_msg, i, patvars,
                   res_search, res_simd, inflight, found, rejected, full>>

\* an idle worker that has seen no match reported takes window o, which
\* nobody took yet
ParTake(o) ==
    /\ par_pc = "running"
    /\ Cardinality(inflight) < NumWorkers
    /\ ~full
    /\ o \in todo
    /\ inflight' = inflight \cup {o}
    /\ todo' = todo \ {o}
    /\ UNCHANGED <<sus, SIZE, memchr, bytes, pc, panic_msg, i, patvars,
                   res_search, res_simd, par_pc, found, rejected, full,
                   res_par>>

\* the worker holding window o runs the closure on it and find_any's
\* predicate on the closure's result
ParEval(o) ==
    /\ par_pc = "running"
    /\ o \in inflight
    /\ IF par_closure(Pat, bytes, o)
       THEN /\ found' = found \cup {o}
            /\ full' = TRUE
            /\ UNCHANGED rejected
       ELSE /\ rejected' = rejected \cup {o}
            /\ UNCHANGED <<found, full>>
    /\ inflight' = inflight \ {o}
    /\ UNCHANGED <<sus, SIZE, memchr, bytes, pc, panic_msg, i, patvars,
                   res_search, res_simd, par_pc, todo, res_par>>

\* every worker is done (nothing left, or a match was reported): find_any
\* yields one of the matches found, flatten unwraps it
ParJoin ==
    /\ par_pc = "running"
    /\ inflight = {}
    /\ full \/ todo = {}
    /\ \/ /\ found = {}
          /\ res_par' = None
       \/ \E o \in found : res_par' = Some(o)
    /\ par_pc' = "done"
    /\ UNCHANGED <<sus, SIZE, memchr, bytes, pc, panic_msg, i, patvars,
                   res_search, res_simd, todo, inflight, found, rejected,
                   full>>

\* the offsets a buffer of the model can have
Offsets == 0..(FillCount + MaxBuf + Len(ExampleBuf))

NextCompile ==
    \/ FromStrEntry
    \/ FromStrIterate
    \/ FromStrReturn

Next ==
    \/ NextCompile
    \/ ReadBuffer
    \/ Search
    \/ SimdSearch
    \/ ParStart
    \/ \E o \in Offsets : ParTake(o)
    \/ \E o \in Offsets : ParEval(o)
    \/ ParJoin

Spec == Init /\ [][Next]_vars

SpecCompile == InitCompile /\ [][NextCompile]_vars

\* ======================================================================
\* Properties
\* ======================================================================
Compiled == pc \in {"compiled", "ready"}

\* window offset o of the buffer: the window of pattern_i bytes fits
ValidOffset(o) == o >= 0 /\ o + pattern_i <= Len(bytes)

\* every EXACT position of the pattern equals the buffer byte under it
MatchesAt(o) ==
    \A k \in 0..(pattern_i - 1) :
        mask[k + 1] = EXACT => bytes[o + k + 1] = data[k + 1]

MatchSet == {o \in 0..Len(bytes) : ValidOffset(o) /\ MatchesAt(o)}

Leftmost ==
    IF MatchSet = {} THEN None
    ELSE Some(CHOOSE o \in MatchSet : \A q \in MatchSet : o <= q)

\* ---- the grammar, read off the text
\* one or more tokens separated by single spaces, each two hex digits or ??
Conforming(s) ==
    /\ Len(s) % 3 = 2
    /\ \A k \in 1..Len(s) :
          IF k % 3 = 0 THEN s[k] = SP
          ELSE IF k % 3 = 1
               THEN \/ s[k] = HUH /\ s[k + 1] = HUH
                    \/ IsHex(s[k]) /\ IsHex(s[k + 1])
          ELSE TRUE

NumTokens(s) == (Len(s) + 1) \div 3

\* the number of space-run boundaries, plus one
GroupCount(s) ==
    Cardinality({k \in 1..Len(s) : s[k] = SP /\ (k = 1 \/ s[k - 1] # SP)}) + 1

\* s[a..b] is a token of s: a maximal run without a space
IsToken(s, a, b) ==
    /\ a <= b
    /\ \A k \in a..b : s[k] # SP
    /\ a = 1 \/ s[a - 1] = SP
    /\ b = Len(s) \/ s[b + 1] = SP

GoodToken(t) ==
    /\ Len(t) = 2
    /\ \/ t[1] = HUH /\ t[2] = HUH
       \/ IsHex(t[1]) /\ IsHex(t[2])

HasBadToken(s) ==
    \E a \in 1..Len(s) : \E b \in a..Len(s) :
        IsToken(s, a, b) /\ ~GoodToken(SubSeq(s, a, b))

\* ---- C1: linear search returns the smallest valid offset at which every
\* EXACT position matches, and None when there is none (also when the
\* buffer is shorter than the pattern).
C1_SearchLeftmost ==
    res_search # NotRun => res_search = Leftmost

\* the same for the patterns of at least one token
SearchLeftmostNonEmpty ==
    (res_search # NotRun /\ pattern_i >= 1) => res_search = Leftmost

\* ---- C2: simd_search ends exactly as search does on the same pattern and
\* buffer: the same Some(offset) or both None (and both stop at the same
\* place on a pattern search cannot scan), whatever logical_length is.
C2_SimdEqualsSearch ==
    (res_search # NotRun /\ res_simd # NotRun) => res_simd = res_search

\* a pattern of one full chunk and a tail, with wildcards, scanned (not
\* delegated) and found past offset 0 by both
C2_Witness ==
    /\ res_simd.tag = "Some"
    /\ res_search = res_simd
    /\ res_simd.off >= 1
    /\ pattern_i > ChunkWidth
    /\ pattern_i % ChunkWidth # 0
    /\ ~no_mask
    /\ \E k \in 1..ChunkWidth : mask[k] = EXACT

\* ---- C3: an offset returned by par_search is a valid window offset at
\* which every EXACT position of the pattern equals the buffer byte.
C3_ParSound ==
    res_par.tag = "Some" => (ValidOffset(res_par.off) /\ MatchesAt(res_par.off))

\* the workers raced and par_search returned a match that is not the
\* leftmost one
C3_Witness ==
    /\ res_par.tag = "Some"
    /\ Cardinality(found) >= 1
    /\ res_par # Leftmost
    /\ rejected # {}

\* ---- C4: with at most one matching offset par_search returns what search
\* returns: None only when every valid window offset was examined and
\* rejected, and the matching offset when there is exactly one.
C4_ParEqualsSearchWhenUnique ==
    (par_pc = "done" /\ Cardinality(MatchSet) <= 1) =>
        /\ res_par = search(Pat, bytes)
        /\ res_par = None =>
              \A o \in 0..Len(bytes) :
                  ValidOffset(o) =>
                      /\ ~MatchesAt(o)
                      /\ (memchr /\ no_mask) \/ o \in rejected
        /\ \A o \in MatchSet : res_par = Some(o)

\* the same for the patterns of at least one token
ParEqualsSearchWhenUniqueNonEmpty ==
    pattern_i >= 1 => C4_ParEqualsSearchWhenUnique

\* ---- C5: a signature that conforms to the grammar, with a capacity above
\* its token count, compiles: logical_length is the token count, a byte
\* token gives (its value, EXACT), a ?? token gives (0, WILDCARD).
C5_ConformingCompiles ==
    (Conforming(sus) /\ SIZE > NumTokens(sus)) =>
        /\ pc # "failed"
        /\ pc = "compiled" =>
              /\ pattern_i = NumTokens(sus)
              /\ \A t \in 0..(NumTokens(sus) - 1) :
                    IF sus[3 * t + 1] = HUH
                    THEN data[t + 1] = 0 /\ mask[t + 1] = WILDCARD
                    ELSE /\ data[t + 1] = 16 * HexVal(sus[3 * t + 1])
                                          + HexVal(sus[3 * t + 2])
                         /\ mask[t + 1] = EXACT

\* the same for the conforming signatures whose last token is a byte
ConformingByteLastCompiles ==
    (Len(sus) > 0 /\ sus[Len(sus)] # HUH) => C5_ConformingCompiles

C7_BadTokenRejected ==
    HasBadToken(sus) => pc # "compiled"

\* ---- C8: from_str fails when at end of input the last token is not a
\* wildcard and the scratch buffer is empty or holds one digit: the empty
\* signature, a trailing space, a final single hex digit.
C8_DanglingEndRejected ==
    pc = "compiled" =>
        /\ found_huh \/ (hexbytes[1] # 0 /\ hexbytes[2] # 0)
        /\ sus # <<>>
        /\ sus[Len(sus)] # SP
        /\ ~IsToken(sus, Len(sus), Len(sus))

\* the same for the signatures of at least one character
DanglingEndRejectedNonEmpty ==
    sus # <<>> => C8_DanglingEndRejected

\* ---- C9: on a Pattern from a successful from_str no search fails:
\* logical_length is at most the capacity and search, simd_search and
\* par_search each return a result.
C9_SearchNeverFails ==
    /\ Compiled => pattern_i <= SIZE
    /\ res_search # Panic
    /\ res_simd # Panic
    /\ res_par # Panic

\* logical_length is at most the capacity
LengthWithinCapacity == Compiled => pattern_i <= SIZE

\* ---- C10: no_mask is true exactly when every mask entry below
\* logical_length is EXACT, and then search returns what a leftmost
\* exact-substring search for data[0..logical_length] returns.
C10_NoMaskIsExactSearch ==
    Compiled =>
        /\ no_mask <=> \A k \in 1..pattern_i : mask[k] = EXACT
        /\ (no_mask /\ res_search # NotRun) =>
              LET needle == SubSeq(data, 1, pattern_i)
                  occ == {o \in 0..Len(bytes) :
                             /\ o + pattern_i <= Len(bytes)
                             /\ SubSeq(bytes, o + 1, o + pattern_i) = needle}
              IN  IF occ = {} THEN res_search = None
                  ELSE /\ res_search.tag = "Some"
                       /\ res_search.off \in occ
                       /\ \A q \in occ : res_search.off <= q

\* the same for the patterns of at least one token
NoMaskIsExactSearchNonEmpty ==
    pattern_i >= 1 => C10_NoMaskIsExactSearch

====
